---- MODULE Spec2Model ----
(***************************************************************************)
(* Article lifecycle pipeline of the Bitcoin Mining News Bot (main.py):    *)
(* the three persisted stores (queue, posted ledger, daily brief cache)    *)
(* and the three workflows that move an article between them.              *)
(*                                                                         *)
(* One action is one workflow invocation, run to completion (each          *)
(* invocation is a fresh single-threaded process).  Time is counted in     *)
(* hours.  The calls main.py makes into bot_lib and into the remote        *)
(* providers are modelled at the call site by their outcome: the call      *)
(* returns a value or raises.  As src/ stands, main.py calls               *)
(* filter_articles, generate_social_media_content and post_to_twitter      *)
(* with keyword arguments their definitions in bot_lib.py do not accept    *)
(* (and the latter two are placeholders), so the "raises" outcome is the   *)
(* one the present bot_lib produces; the "returns" outcomes are what the   *)
(* orchestration does once the call goes through.                          *)
(*                                                                         *)
(* The retry loop of bot_lib.fetch_articles_with_retry is modelled on its  *)
(* own, one action per loop iteration (SpecRetry).  SpecFault lets a save  *)
(* fail as save_json_file's except branch allows, SpecKill lets a publish  *)
(* be killed between its steps, SpecBrief has news that fills the daily    *)
(* brief cache, SpecCall applies filter_articles and                       *)
(* remove_duplicate_articles to each list of articles, SpecCrash lets an   *)
(* ingest be killed inside its save of the queue, SpecOverlap lets         *)
(* publishes run between an ingest's load of the queue and its save.       *)
(***************************************************************************)
EXTENDS Integers, Sequences, FiniteSets, TLC

\* ------------------------------------------------------------------------
\* Bounds of the model
\* ------------------------------------------------------------------------

\* number of distinct article urls the news source can return
NumUrls == 3

\* number of times the clock advances
MaxTicks == 1

\* daily brief cache entries kept in the model (the code has no cap)
MaxCache == 2

\* articles per fetch when storage may fail
MaxFaultFetch == 1

\* longest list filter_articles is applied to
MaxFilterLen == 2

\* longest list remove_duplicate_articles is applied to
MaxDedupeLen == 3

\* largest max_retries fetch_articles_with_retry is called with
MaxRetries == 3

\* articles per fetch when the news is dated today or undated
MaxBriefFetch == 1

\* distinct article urls in the news dated today or undated
MaxBriefUrls == 1

\* the number of cached articles the daily brief formats (50 in
\* main.py:403), scaled down
BRIEF_MAX_ARTICLES == 1

\* config.MAX_QUEUE_SIZE (100 in config.py:90), scaled down
MAX_QUEUE_SIZE == 2

\* config.MAX_TWEETS_PER_DAY (60 in config.py:73), scaled down
MAX_TWEETS_PER_DAY == 1

\* ------------------------------------------------------------------------
\* Program constants
\* ------------------------------------------------------------------------

HOURS_PER_DAY == 24

\* add_posted_article: timedelta(days=30)
POSTED_RETENTION_DAYS == 30

\* workflow_monitor: timedelta(hours=24)
CACHE_RETENTION_HOURS == 24

MIN_SOCIAL_SCORE == 5

MIN_SENTIMENT == -1

\* config.POST_RETRY_ATTEMPTS
POST_RETRY_ATTEMPTS == 3

\* config.MIN_ARTICLE_LENGTH, passed as min_length at main.py:163
MIN_ARTICLE_LENGTH == 200

\* BitcoinMiningFilter.__init__: min_mining_terms
MIN_MINING_TERMS == 2

\* BitcoinMiningFilter.MINING_KEYWORDS, three of the list
MINING_KEYWORDS == {"mining", "hashrate", "asic"}

\* config.MONITOR_MAX_ARTICLES (50) is the fetch's maxItems; config keeps it
\* at or below MAX_QUEUE_SIZE (100), and so does the model.
MONITOR_MAX_ARTICLES == MAX_QUEUE_SIZE

BLACKLISTED_SOURCES == {"example-spam-site.com", "clickbait-news.com", "low-quality-source.com"}

BLACKLISTED_KEYWORDS == {"sponsored", "advertisement", "crypto scam", "get rich quick"}

\* ------------------------------------------------------------------------
\* Helpers
\* ------------------------------------------------------------------------

UrlNames == <<"a", "b", "c", "d", "e", "f">>

Urls == {UrlNames[i] : i \in 1..NumUrls}

\* sequences over S of length at most n
BSeq(S, n) == UNION {[1..k -> S] : k \in 0..n}

\* Python s[-n:] for n > 0
LastN(s, n) == IF Len(s) <= n THEN s ELSE SubSeq(s, Len(s) - n + 1, Len(s))

\* str.lower() on the words the model uses
Lower(w) ==
    CASE w = "Sponsored" -> "sponsored"
      [] w = "Invalid API key" -> "invalid api key"
      [] w = "Authentication" -> "authentication"
      [] w = "Rate limit" -> "rate limit"
      [] OTHER -> w

\* datetime.strftime("%Y-%m-%d"): the calendar day of an instant
DayOf(t) == t \div HOURS_PER_DAY

\* ------------------------------------------------------------------------
\* State
\* ------------------------------------------------------------------------

VARIABLES
    queue_file,   \* article_queue.json
    posted_file,  \* posted_articles.json
    cache_file,   \* daily_brief_cache.json
    now,          \* datetime.now(), in hours
    ticks,        \* clock advances so far
    last,         \* the invocation that just ended: workflow, path, exit status
    failed_brief, \* the articles handed to the last daily brief that failed
    retry,        \* a call of fetch_articles_with_retry: its loop and its log
    call,         \* a call of filter_articles or remove_duplicate_articles
    ingest        \* an ingest under way while other invocations run

vars == <<queue_file, posted_file, cache_file, now, ticks, last, failed_brief, retry, call, ingest>>

\* A file is absent, holds a JSON list, or holds a partial write.
MissingFile == [st |-> "missing", data |-> <<>>]

OkFile(data) == [st |-> "ok", data |-> data]

CorruptFile == [st |-> "corrupt", data |-> <<>>]

\* the file after json.dump was cut short: the text of the items written so
\* far, here all but the last, which does not parse
PartialFile(data) == [st |-> "corrupt", data |-> SubSeq(data, 1, Len(data) - 1)]

\* mutant: the items found in the file are returned, parsed or not
load_json_file_Lenient(f) == f.data

\* load_json_file(filepath, default=[])
load_json_file(f) == IF f.st = "ok" THEN f.data ELSE <<>>

\* save_json_file(filepath, data): outcome "ok" writes data; "unchanged" is
\* open() raising before the file is touched; "truncated" is the write
\* failing after open(filepath, 'w') emptied the file; "partial" is the
\* write stopping after part of the data.
save_json_file(f, data, outcome) ==
    CASE outcome = "ok" -> OkFile(data)
      [] outcome = "unchanged" -> f
      [] outcome = "partial" -> PartialFile(data)
      [] OTHER -> CorruptFile

SaveReliable == {"ok"}

SaveOutcomes == {"ok", "unchanged", "truncated"}

\* where a kill can fall in save_json_file: before open(), during
\* json.dump, after it
KillOutcomes == {"unchanged", "partial", "ok"}

\* the stores as the next invocation loads them
queue == load_json_file(queue_file)

posted == load_json_file(posted_file)

cache == load_json_file(cache_file)

QueueUrls(q) == {q[i].url : i \in 1..Len(q)}

\* ------------------------------------------------------------------------
\* bot_lib: filtering and deduplication
\* ------------------------------------------------------------------------

\* A text (title, body, source uri) is the set of words occurring in it; the
\* empty set is the empty string.  `x in text` is membership.
Contains(text, w) == Lower(w) \in {Lower(x) : x \in text}

\* bot_lib.filter_articles: the gates one article has to pass
PassesFilter(a) ==
    /\ a.title # {} /\ a.url # "" /\ a.body # {}
    /\ ~ \E b \in BLACKLISTED_SOURCES : Contains(a.source_uri, b)
    /\ ~ \E k \in BLACKLISTED_KEYWORDS : Contains(a.title, k) \/ Contains(a.body, k)
    /\ ~ (a.socialScore < MIN_SOCIAL_SCORE)
    /\ ~ (a.sentiment < MIN_SENTIMENT)

filter_articles(articles) == SelectSeq(articles, PassesFilter)

RECURSIVE DedupFrom(_, _)
DedupFrom(articles, seen_urls) ==
    IF articles = <<>> THEN <<>>
    ELSE LET a == Head(articles) IN
         IF a.url # "" /\ a.url \notin seen_urls
         THEN <<a>> \o DedupFrom(Tail(articles), seen_urls \cup {a.url})
         ELSE DedupFrom(Tail(articles), seen_urls)

\* mutant: nothing is dropped
remove_duplicate_articles_KeepsAll(articles) == articles

Reverse(s) == [i \in 1..Len(s) |-> s[Len(s) + 1 - i]]

\* mutant: the last occurrence of a url is kept
remove_duplicate_articles_KeepsLast(articles) ==
    Reverse(DedupFrom(Reverse(articles), {}))

remove_duplicate_articles(articles) == DedupFrom(articles, {})

\* ------------------------------------------------------------------------
\* bot_lib: fetch_articles_with_retry
\* ------------------------------------------------------------------------

\* An error message is the set of phrases occurring in str(e).
ErrorMessages ==
    { {"Invalid API key"},
      {"Authentication", "failed"},
      {"Rate limit", "Authentication"},
      {"Rate limit", "exceeded"},
      {"Connection", "timed out"},
      {"Invalid date format"} }

\* what one call of fetch_bitcoin_mining_articles does: it returns a list of
\* articles or raises
FetchOutcomes ==
    {[kind |-> "returns", articles |-> a, msg |-> {}] : a \in {<<>>, <<"article">>}}
    \cup {[kind |-> "raises", articles |-> <<>>, msg |-> m] : m \in ErrorMessages}

\* mutant: no error is taken for an authentication error
IsFatal_Never(msg) == FALSE

\* line 213: "invalid api key" in error_msg or "authentication" in error_msg
IsFatal(msg) == Contains(msg, "invalid api key") \/ Contains(msg, "authentication")

\* line 217: "rate limit" in error_msg
IsRateLimit(msg) == Contains(msg, "rate limit")

\* mutant: every attempt is followed by another
IsLastAttempt_Never(attempt, max_retries) == FALSE

\* lines 218 and 226, negated: attempt < max_retries - 1 does not hold
IsLastAttempt(attempt, max_retries) == ~ (attempt < max_retries - 1)

\* mutant: the wait does not grow with the attempt
WaitTime_Constant(attempt, msg) == IF IsRateLimit(msg) THEN 10 ELSE 5

\* lines 219 and 227: the seconds to sleep after the failed attempt
WaitTime(attempt, msg) ==
    IF IsRateLimit(msg) THEN (2 ^ attempt) * 10 ELSE (2 ^ attempt) * 5

\* no call of fetch_articles_with_retry is under way
NoRetry ==
    [status |-> "idle", max_retries |-> 0, attempt |-> 0,
     calls |-> <<>>, waits |-> <<>>, result |-> <<>>, error |-> {}]

\* a call with max_retries = m enters the loop
RetryStarted(m) == [NoRetry EXCEPT !.status = "running", !.max_retries = m]

\* lines 202-232: one iteration of the loop
FetchAttempt ==
    /\ retry.status = "running"
    /\ retry.attempt < retry.max_retries
    /\ UNCHANGED <<queue_file, posted_file, cache_file, now, ticks, last, failed_brief, call, ingest>>
    /\ \E o \in FetchOutcomes :
         LET called == [retry EXCEPT !.calls = Append(@, o)] IN
         IF o.kind = "returns"
         THEN \* lines 204-209
              retry' = [called EXCEPT !.status = "returned", !.result = o.articles]
         ELSE IF IsFatal(o.msg) \/ IsLastAttempt(retry.attempt, retry.max_retries)
         THEN \* lines 213-214, 222-223, 230-231: raise
              retry' = [called EXCEPT !.status = "raised", !.error = o.msg]
         ELSE \* lines 218-221, 226-229: sleep, then the next iteration
              retry' = [called EXCEPT
                          !.waits = Append(@, WaitTime(retry.attempt, o.msg)),
                          !.attempt = @ + 1]

\* line 234: the loop ends without a return or a raise
FetchLoopEnds ==
    /\ retry.status = "running"
    /\ ~ (retry.attempt < retry.max_retries)
    /\ retry' = [retry EXCEPT !.status = "returned", !.result = <<>>]
    /\ UNCHANGED <<queue_file, posted_file, cache_file, now, ticks, last, failed_brief, call, ingest>>

\* ------------------------------------------------------------------------
\* main.py: posted ledger
\* ------------------------------------------------------------------------

\* get_posted_articles_today: the records whose date starts with today's day
get_posted_articles_today(pf, t) ==
    SelectSeq(load_json_file(pf), LAMBDA p : DayOf(p.date) = DayOf(t))

\* mutant: the retention filter runs on the loaded list, the new record is lost
add_posted_article_DropsNew(pf, url, t, outcome) ==
    LET cutoff == t - POSTED_RETENTION_DAYS * HOURS_PER_DAY
        kept == SelectSeq(load_json_file(pf), LAMBDA p : p.date > cutoff)
    IN save_json_file(pf, kept, outcome)

\* add_posted_article, lines 90-104: append, keep only the last 30 days
PostedAfterAdd(ledger, url, t) ==
    LET appended == Append(ledger, [url |-> url, date |-> t])
        cutoff == t - POSTED_RETENTION_DAYS * HOURS_PER_DAY
    IN SelectSeq(appended, LAMBDA p : p.date > cutoff)

\* mutant: the 30 day filter is left out
add_posted_article_KeepsAll(pf, url, t, outcome) ==
    save_json_file(pf, Append(load_json_file(pf), [url |-> url, date |-> t]), outcome)

\* add_posted_article: append, keep the last 30 days, save
add_posted_article(pf, url, t, outcome) ==
    save_json_file(pf, PostedAfterAdd(load_json_file(pf), url, t), outcome)

\* ------------------------------------------------------------------------
\* main.py: workflow_monitor
\* ------------------------------------------------------------------------

\* an article as the news source returns it.  body is the set of words in
\* the body and body_len its length in characters.  stamp.date is the 'date' key
\* (<<>> when the key is absent, else the instant the YYYY-MM-DD string
\* parses to); published is the instant the article came out, which the
\* program sees only through 'date'.
Article(url, score, stamp) ==
    [url |-> url, title |-> {"w"}, body |-> {"mining", "hashrate"},
     body_len |-> MIN_ARTICLE_LENGTH, source_uri |-> {"w"},
     socialScore |-> score, sentiment |-> 0,
     date |-> stamp.date, published |-> stamp.published]

\* what the news source can say at instant t about when an article came out:
\* nothing (the article is out now), today's date, or yesterday's
NoDate(t) == {[date |-> <<>>, published |-> t]}

Today(t) ==
    {[date |-> <<HOURS_PER_DAY * DayOf(t)>>, published |-> HOURS_PER_DAY * DayOf(t)]}

Yesterday(t) ==
    {[date |-> <<HOURS_PER_DAY * (DayOf(t) - 1)>>,
      published |-> HOURS_PER_DAY * (DayOf(t) - 1)]}

\* the articles the news source can return: one per url in U and stamp in
\* D, and one below the social score threshold
RawItemsOf(U, D) ==
    {Article(u, MIN_SOCIAL_SCORE, d) : u \in U, d \in D}
    \cup {Article(UrlNames[1], MIN_SOCIAL_SCORE - 1, d) : d \in NoDate(0)}

RawItems(D) == RawItemsOf(Urls, D)

\* the queue entry built from an article (lines 184-192)
QueueEntry(a) == [url |-> a.url]

\* mutant: every article is appended, queued or not
RECURSIVE AppendNew_NoCheck(_, _, _)
AppendNew_NoCheck(q, unique_articles, queue_urls) ==
    IF unique_articles = <<>> THEN q
    ELSE AppendNew_NoCheck(Append(q, QueueEntry(Head(unique_articles))),
                           Tail(unique_articles), queue_urls)

\* lines 180-193: append the articles whose url is not in the loaded queue
RECURSIVE AppendNew(_, _, _)
AppendNew(q, unique_articles, queue_urls) ==
    IF unique_articles = <<>> THEN q
    ELSE LET a == Head(unique_articles) IN
         IF a.url \notin queue_urls
         THEN AppendNew(Append(q, QueueEntry(a)), Tail(unique_articles), queue_urls)
         ELSE AppendNew(q, Tail(unique_articles), queue_urls)

\* mutant: the queue is never trimmed
TrimQueue_Never(q) == q

\* mutant: the trim keeps the oldest entries, queue[:MAX_QUEUE_SIZE]
TrimQueue_KeepsOldest(q) ==
    IF Len(q) > MAX_QUEUE_SIZE THEN SubSeq(q, 1, MAX_QUEUE_SIZE) ELSE q

\* lines 197-200: limit queue size
TrimQueue(q) == IF Len(q) > MAX_QUEUE_SIZE THEN LastN(q, MAX_QUEUE_SIZE) ELSE q

\* lines 176-200: the queue workflow_monitor writes
QueueAfterIngest(q, unique_articles) ==
    TrimQueue(AppendNew(q, unique_articles, QueueUrls(q)))

\* mutant: an article whose url is cached already is not added again
CacheAfterIngest_Dedupes(c, unique_articles, t) ==
    LET cutoff == t - CACHE_RETENTION_HOURS
        DateOf(a) == IF a.date = <<>> THEN t ELSE a.date[1]
        cached == {c[i].url : i \in 1..Len(c)}
    IN SelectSeq(c \o SelectSeq(unique_articles, LAMBDA a : a.url \notin cached),
                 LAMBDA a : DateOf(a) > cutoff)

\* mutant: the cache is overwritten with the new articles
CacheAfterIngest_Overwrites(c, unique_articles, t) == unique_articles

\* lines 205-214: the cache workflow_monitor writes
CacheAfterIngest(c, unique_articles, t) ==
    LET cutoff == t - CACHE_RETENTION_HOURS
        DateOf(a) == IF a.date = <<>> THEN t ELSE a.date[1]
    IN SelectSeq(c \o unique_articles, LAMBDA a : DateOf(a) > cutoff)

UrlsOf(articles) == [i \in 1..Len(articles) |-> articles[i].url]

\* mutant: publish reads the ledger for the rate limit before it checks
\* its keys
Touched_LedgerFirst(wf, path) ==
    IF wf = "post" /\ path = "missing_keys" THEN {"posted_articles"} ELSE {}

\* the stores an invocation loaded and the collaborators it called before it
\* ended on path, by the order of the statements: workflow_monitor lines
\* 127-217, workflow_post lines 246-344, workflow_daily_brief lines 381-447
Touched(wf, path) ==
    CASE wf = "monitor" ->
           CASE path = "missing_key" -> {}
             [] path \in {"fetch_raises", "no_articles"} -> {"fetch"}
             [] path \in {"filter_raises", "none_passed"} -> {"fetch", "filter"}
             [] path = "killed_in_save" -> {"fetch", "filter", "article_queue"}
             [] OTHER -> {"fetch", "filter", "article_queue", "daily_brief_cache"}
      [] wf = "post" ->
           CASE path = "missing_keys" -> {}
             [] path = "rate_limit" -> {"posted_articles"}
             [] path = "empty_queue" -> {"posted_articles", "article_queue"}
             [] path \in {"gen_raises", "no_content", "killed_before_tweet"} ->
                  {"posted_articles", "article_queue", "generate"}
             [] OTHER -> {"posted_articles", "article_queue", "generate", "post"}
      [] wf = "daily_brief" ->
           CASE path = "missing_keys" -> {}
             [] path = "empty_cache" -> {"daily_brief_cache"}
             [] path = "gen_raises" -> {"daily_brief_cache", "generate"}
             [] OTHER -> {"daily_brief_cache", "generate", "issue"}
      [] OTHER -> {}

\* mutant: the ingest also saves the ledger
Written_IngestPrunesLedger(wf, path) ==
    IF wf = "monitor" /\ path = "ok"
    THEN {"article_queue", "daily_brief_cache", "posted_articles"} ELSE {}

\* the stores an invocation passed to save_json_file before it ended on
\* path: workflow_monitor lines 203 and 217, workflow_post lines 341 (through
\* add_posted_article, line 106), 344, 352 and 359, workflow_daily_brief
\* line 450
Written(wf, path) ==
    CASE wf = "monitor" /\ path = "ok" -> {"article_queue", "daily_brief_cache"}
      [] wf = "monitor" /\ path = "killed_in_save" -> {"article_queue"}
      [] wf = "post" /\ path \in {"gen_raises", "tweet_raises", "no_tweet_id"} ->
           {"article_queue"}
      [] wf = "post" /\ path = "posted" -> {"posted_articles", "article_queue"}
      [] wf = "post" /\ path = "killed_after_record" -> {"posted_articles"}
      [] wf = "daily_brief" /\ path = "delivered" -> {"daily_brief_cache"}
      [] OTHER -> {}

\* what an invocation did: the workflow, the path it took, its exit status,
\* the urls ingest found unique, whether the queue was trimmed, whether the
\* ingest repeats the previous one, the url the posting sink confirmed, the
\* ledger records the retention filter dropped, the articles handed to the
\* brief generation, whether the brief follows a failed one none of whose
\* articles has aged, how often the publish called the collaborator that
\* raised and the message of its error, what the image step of the publish
\* did and the image path handed to the posting call, the url of the entry
\* the publish took off the queue, the urls the ingest trimmed off the queue,
\* the url the invocation before the ingest failed to publish and put back,
\* the stores loaded and the collaborators called, the stores saved, the
\* urls an overlapping ingest wrote back into the queue after another
\* invocation had removed them
Ended(wf, path, exit) ==
    [wf |-> wf, path |-> path, exit |-> exit,
     unique |-> <<>>, trimmed |-> FALSE, rerun |-> FALSE,
     tweeted |-> "", dropped |-> 0, drained |-> <<>>, retried |-> FALSE,
     attempts |-> 0, error |-> {}, image |-> "", image_path |-> "",
     popped |-> "", evicted |-> {}, stuck |-> "",
     touched |-> Touched(wf, path), written |-> Written(wf, path),
     resurrected |-> {}]

Range(s) == {s[i] : i \in 1..Len(s)}

\* the 'date' key of article a is 24 hours or more before instant t
Aged(a, t) == a.date # <<>> /\ a.date[1] <= t - CACHE_RETENTION_HOURS

\* the failed brief after an ingest at instant t wrote the cache: note
\* whether one of its articles had aged by then
FailedBriefAfterIngest(fb, t) ==
    [fb EXCEPT !.aged = @ \/ \E a \in fb.content : Aged(a, t)]

\* the paths of a publish that put the article back (lines 348-360)
RequeuePaths == {"gen_raises", "tweet_raises", "no_tweet_id"}

workflow_monitor(S, items, n) ==
    /\ UNCHANGED <<posted_file, now, ticks, retry, call, ingest>>
    /\ \/ \* lines 128-130: EVENT_REGISTRY_API_KEY not configured
          /\ last' = Ended("monitor", "missing_key", 1)
          /\ UNCHANGED <<queue_file, cache_file, failed_brief>>
       \/ \* lines 143-149, 222-224: fetch_articles_with_retry raises
          /\ last' = Ended("monitor", "fetch_raises", 1)
          /\ UNCHANGED <<queue_file, cache_file, failed_brief>>
       \/ \* lines 158-164, 222-224: filter_articles raises
          /\ last' = Ended("monitor", "filter_raises", 1)
          /\ UNCHANGED <<queue_file, cache_file, failed_brief>>
       \/ \* lines 153-220: the fetch returns articles
          \E articles \in BSeq(items, n) :
            LET filtered_articles == filter_articles(articles)
                unique_articles == remove_duplicate_articles(filtered_articles)
                new_queue == QueueAfterIngest(queue, unique_articles)
                new_cache == CacheAfterIngest(cache, unique_articles, now)
            IN IF articles = <<>>
               THEN /\ last' = Ended("monitor", "no_articles", 0)
                    /\ UNCHANGED <<queue_file, cache_file, failed_brief>>
               ELSE IF filtered_articles = <<>>
               THEN /\ last' = Ended("monitor", "none_passed", 0)
                    /\ UNCHANGED <<queue_file, cache_file, failed_brief>>
               ELSE /\ Len(new_cache) <= MaxCache
                    /\ failed_brief' = FailedBriefAfterIngest(failed_brief, now)
                    /\ \E sq \in S : queue_file' = save_json_file(queue_file, new_queue, sq)
                    /\ \E sc \in S : cache_file' = save_json_file(cache_file, new_cache, sc)
                    /\ last' = [Ended("monitor", "ok", 0) EXCEPT
                                  !.unique = UrlsOf(unique_articles),
                                  !.trimmed =
                                      Len(AppendNew(queue, unique_articles, QueueUrls(queue)))
                                          > MAX_QUEUE_SIZE,
                                  !.rerun = /\ last.wf = "monitor" /\ last.path = "ok"
                                            /\ last.unique = UrlsOf(unique_articles),
                                  !.evicted = QueueUrls(queue) \ QueueUrls(new_queue),
                                  !.stuck = IF last.wf = "post" /\ last.path \in RequeuePaths
                                            THEN last.popped ELSE ""]

\* workflow_monitor killed inside save_json_file(QUEUE_FILE, queue), line
\* 203: before open() the file is as it was, after open(filepath, 'w') and
\* before json.dump has written everything it holds a partial write, after
\* that the new queue; the cache is not written
workflow_monitor_killed(items, n) ==
    /\ UNCHANGED <<posted_file, cache_file, now, ticks, failed_brief, retry, call, ingest>>
    /\ \E articles \in BSeq(items, n) :
         LET filtered_articles == filter_articles(articles)
             unique_articles == remove_duplicate_articles(filtered_articles)
             new_queue == QueueAfterIngest(queue, unique_articles)
         IN /\ filtered_articles # <<>>
            /\ \E o \in KillOutcomes :
                  queue_file' = save_json_file(queue_file, new_queue, o)
            /\ last' = [Ended("monitor", "killed_in_save", 137) EXCEPT
                          !.unique = UrlsOf(unique_articles)]

\* no ingest is between its load of the queue and its save
NoIngest == [pc |-> "idle", queue |-> <<>>, unique |-> <<>>]

\* mutant: the queue is loaded again before it is saved
QueueSeenAtSave_Reloads(loaded, current) == current

\* lines 177-203: the queue the ingest appends to and saves is the list it
\* loaded at line 177
QueueSeenAtSave(loaded, current) == loaded

\* workflow_monitor up to line 177, while other invocations may run: the
\* fetch returned articles, some passed the filter, the queue is loaded
workflow_monitor_loads(items, n) ==
    /\ ingest.pc = "idle"
    /\ \E articles \in BSeq(items, n) :
         LET filtered_articles == filter_articles(articles)
             unique_articles == remove_duplicate_articles(filtered_articles)
         IN /\ filtered_articles # <<>>
            /\ ingest' = [pc |-> "loaded", queue |-> queue, unique |-> unique_articles]
    /\ UNCHANGED <<queue_file, posted_file, cache_file, now, ticks, last,
                   failed_brief, retry, call>>

\* workflow_monitor from line 178 to its end: append to the loaded list,
\* trim, save the queue, load the cache, extend, filter and save it
workflow_monitor_saves ==
    /\ ingest.pc = "loaded"
    /\ LET q == QueueSeenAtSave(ingest.queue, queue)
           new_queue == QueueAfterIngest(q, ingest.unique)
           new_cache == CacheAfterIngest(cache, ingest.unique, now)
       IN /\ Len(new_cache) <= MaxCache
          /\ failed_brief' = FailedBriefAfterIngest(failed_brief, now)
          /\ queue_file' = save_json_file(queue_file, new_queue, "ok")
          /\ cache_file' = save_json_file(cache_file, new_cache, "ok")
          /\ last' = [Ended("monitor", "ok", 0) EXCEPT
                        !.unique = UrlsOf(ingest.unique),
                        !.trimmed = Len(AppendNew(q, ingest.unique, QueueUrls(q)))
                                      > MAX_QUEUE_SIZE,
                        !.evicted = QueueUrls(q) \ QueueUrls(new_queue),
                        !.resurrected = QueueUrls(new_queue)
                                          \ (QueueUrls(queue) \cup Range(UrlsOf(ingest.unique)))]
    /\ ingest' = NoIngest
    /\ UNCHANGED <<posted_file, now, ticks, retry, call>>

\* ------------------------------------------------------------------------
\* main.py: workflow_post
\* ------------------------------------------------------------------------

\* mutant: the article is re-added at the tail
Requeue_AtTail(article, rest, outcome) ==
    save_json_file(queue_file, rest \o <<article>>, outcome)

\* lines 349-353 and 355-360: re-add the article at the head and save
Requeue(article, rest, outcome) ==
    save_json_file(queue_file, <<article>> \o rest, outcome)

\* mutant: the check lets one more through, > for >=
RateLimitReached_OffByOne ==
    Len(get_posted_articles_today(posted_file, now)) > MAX_TWEETS_PER_DAY

\* lines 261-262: the rate limit check
RateLimitReached ==
    Len(get_posted_articles_today(posted_file, now)) >= MAX_TWEETS_PER_DAY

\* lines 260-271: the rate limit is not reached and the queue is not empty
PostProceeds == ~ RateLimitReached /\ queue # <<>>

\* the errors generate_social_media_content and post_to_twitter raise: an
\* authentication error, a rate limit, a network error
PostErrors == {{"Authentication", "failed"}, {"Rate limit", "exceeded"},
               {"Connection", "timed out"}}

\* lines 296-322, the image step: "skipped" when there is no Unsplash key, the
\* entry has no image or no image came back, "ready" when
\* fetch_and_prepare_images returned a path, "raises" when it raised
ImageOutcomes == {"skipped", "ready", "raises"}

\* mutant: the path of a failed image step is handed on
image_path_Stale(outcome) == IF outcome = "skipped" THEN "" ELSE "image.jpg"

\* lines 297, 316-322: image_path after the image step
image_path(outcome) == IF outcome = "ready" THEN "image.jpg" ELSE ""

\* a publish that reached the posting call, by what the image step did
AfterImage(ended, outcome) ==
    [ended EXCEPT !.image = outcome, !.image_path = image_path(outcome)]

\* mutant: the newest entry is taken
Pop_Last(q) == [article |-> q[Len(q)], rest |-> SubSeq(q, 1, Len(q) - 1)]

\* line 274, article = queue.pop(0): the article taken and the queue left
Pop(q) == [article |-> Head(q), rest |-> Tail(q)]

\* a publish that took an article off the loaded queue
Popped(path, exit) ==
    [Ended("post", path, exit) EXCEPT !.popped = Pop(queue).article.url]

workflow_post(S) ==
    /\ UNCHANGED <<cache_file, now, ticks, failed_brief, retry, call, ingest>>
    /\ \/ \* lines 255-258: missing required API keys
          /\ last' = Ended("post", "missing_keys", 1)
          /\ UNCHANGED <<queue_file, posted_file>>
       \/ \* lines 261-264: rate limit reached
          /\ RateLimitReached
          /\ last' = Ended("post", "rate_limit", 0)
          /\ UNCHANGED <<queue_file, posted_file>>
       \/ \* lines 267-271: queue is empty
          /\ ~ RateLimitReached
          /\ queue = <<>>
          /\ last' = Ended("post", "empty_queue", 0)
          /\ UNCHANGED <<queue_file, posted_file>>
       \/ \* lines 281-288, 355-360: generate_social_media_content raises
          /\ PostProceeds
          /\ \E sq \in S : queue_file' = Requeue(Pop(queue).article, Pop(queue).rest, sq)
          /\ UNCHANGED posted_file
          /\ \E e \in PostErrors :
                last' = [Popped("gen_raises", 1) EXCEPT !.attempts = 1, !.error = e]
       \/ \* lines 290-292: generate_social_media_content returns nothing
          /\ PostProceeds
          /\ UNCHANGED <<queue_file, posted_file>>
          /\ last' = Popped("no_content", 1)
       \/ \* lines 327-335, 355-360: post_to_twitter raises
          /\ PostProceeds
          /\ \E sq \in S : queue_file' = Requeue(Pop(queue).article, Pop(queue).rest, sq)
          /\ UNCHANGED posted_file
          /\ \E e \in PostErrors, img \in ImageOutcomes :
                last' = AfterImage([Popped("tweet_raises", 1) EXCEPT
                                      !.attempts = 1, !.error = e], img)
       \/ \* lines 348-353: post_to_twitter returns no tweet id
          /\ PostProceeds
          /\ \E sq \in S : queue_file' = Requeue(Pop(queue).article, Pop(queue).rest, sq)
          /\ UNCHANGED posted_file
          /\ \E img \in ImageOutcomes :
                last' = AfterImage(Popped("no_tweet_id", 1), img)
       \/ \* lines 337-347: post_to_twitter returns a tweet id
          /\ PostProceeds
          /\ \E sp \in S : posted_file' = add_posted_article(posted_file, Pop(queue).article.url, now, sp)
          /\ \E sq \in S : queue_file' = save_json_file(queue_file, Pop(queue).rest, sq)
          /\ \E img \in ImageOutcomes :
                last' = AfterImage(
                          [Popped("posted", 0) EXCEPT
                             !.tweeted = Pop(queue).article.url,
                             !.dropped = Len(posted) + 1
                                 - Len(PostedAfterAdd(posted, Pop(queue).article.url, now))],
                          img)

\* mutant: the queue is saved before the ledger is written
PostSteps_SaveFirst == <<"pop", "generate", "image", "post", "save_queue", "record">>

\* lines 274-344: the steps of a publish that posts, in program order:
\* queue.pop(0), generate_social_media_content, the image step,
\* post_to_twitter, add_posted_article, save_json_file(QUEUE_FILE, queue)
PostSteps == <<"pop", "generate", "image", "post", "record", "save_queue">>

\* the steps completed when the process is killed after the k-th
StepsDone(k) == {PostSteps[i] : i \in 1..k}

KilledPath(done) ==
    IF "record" \in done THEN "killed_after_record"
    ELSE IF "post" \in done THEN "killed_after_tweet"
    ELSE "killed_before_tweet"

\* workflow_post killed between two of its steps: each file is as the
\* completed steps left it, the process ends on the signal (128 + 9)
workflow_post_killed ==
    /\ PostProceeds
    /\ UNCHANGED <<cache_file, now, ticks, failed_brief, retry, call, ingest>>
    /\ \E k \in 1..(Len(PostSteps) - 1) :
         LET done == StepsDone(k) IN
         /\ posted_file' = IF "record" \in done
                           THEN add_posted_article(posted_file, Pop(queue).article.url, now, "ok")
                           ELSE posted_file
         /\ queue_file' = IF "save_queue" \in done
                          THEN save_json_file(queue_file, Pop(queue).rest, "ok")
                          ELSE queue_file
         /\ last' = [Popped(KilledPath(done), 137) EXCEPT
                       !.tweeted = IF "post" \in done THEN Pop(queue).article.url ELSE ""]

\* ------------------------------------------------------------------------
\* main.py: workflow_daily_brief
\* ------------------------------------------------------------------------

\* lines 401-404: the articles formatted into the prompt, articles[:50]
BriefArticles(articles) ==
    SubSeq(articles, 1, IF Len(articles) < BRIEF_MAX_ARTICLES
                        THEN Len(articles) ELSE BRIEF_MAX_ARTICLES)

\* status codes the issue endpoint answers with: created, or rejected
IssueStatus == {201, 422}

\* mutant: every answer counts as created
IssueCreated_Always(status_code) == TRUE

\* line 445: response.status_code == 201
IssueCreated(status_code) == status_code = 201

\* mutant: only the articles given to the brief leave the cache
ClearedCache_OnlyBriefed(articles) ==
    SubSeq(articles, Len(BriefArticles(articles)) + 1, Len(articles))

\* line 450: the list written to the cache file after the issue is created
ClearedCache(articles) == <<>>

\* the brief that failed last and has not been tried again: whether there
\* is one, the articles it was given, whether an ingest has since run with
\* one of them aged
NoFailedBrief == [open |-> FALSE, content |-> {}, aged |-> FALSE]

FailedBrief(articles) == [open |-> TRUE, content |-> Range(articles), aged |-> FALSE]

BriefEnded(path, exit, articles) ==
    [Ended("daily_brief", path, exit) EXCEPT
       !.drained = articles,
       !.retried = failed_brief.open /\ ~ failed_brief.aged]

workflow_daily_brief(S) ==
    /\ UNCHANGED <<queue_file, posted_file, now, ticks, retry, call, ingest>>
    /\ \/ \* lines 382-388: GEMINI_API_KEY or GITHUB_TOKEN not configured
          /\ last' = Ended("daily_brief", "missing_keys", 1)
          /\ UNCHANGED <<cache_file, failed_brief>>
       \/ \* lines 391-395: no articles in cache
          /\ cache = <<>>
          /\ last' = Ended("daily_brief", "empty_cache", 0)
          /\ failed_brief' = NoFailedBrief
          /\ UNCHANGED cache_file
       \/ \* lines 401-417, 459-461: generating the brief raises
          /\ cache # <<>>
          /\ last' = BriefEnded("gen_raises", 1, BriefArticles(cache))
          /\ failed_brief' = FailedBrief(BriefArticles(cache))
          /\ UNCHANGED cache_file
       \/ \* lines 440-443, 459-461: creating the issue raises
          /\ cache # <<>>
          /\ last' = BriefEnded("issue_raises", 1, BriefArticles(cache))
          /\ failed_brief' = FailedBrief(BriefArticles(cache))
          /\ UNCHANGED cache_file
       \/ \* lines 445-447, 459-461: the issue is created, reading the
          \* answer (response.json(), issue_data['html_url']) raises
          /\ cache # <<>>
          /\ last' = BriefEnded("answer_raises", 1, BriefArticles(cache))
          /\ failed_brief' = FailedBrief(BriefArticles(cache))
          /\ UNCHANGED cache_file
       \/ \* lines 443-457: the issue endpoint answers
          /\ cache # <<>>
          /\ \E status_code \in IssueStatus :
               IF IssueCreated(status_code)
               THEN \* lines 445-454: clear the cache
                    /\ \E sc \in S : cache_file' = save_json_file(cache_file, ClearedCache(cache), sc)
                    /\ last' = BriefEnded(IF status_code = 201 THEN "delivered" ELSE "rejected",
                                          IF status_code = 201 THEN 0 ELSE 1,
                                          BriefArticles(cache))
                    /\ failed_brief' = NoFailedBrief
               ELSE \* lines 455-457: the issue is not created
                    /\ UNCHANGED cache_file
                    /\ last' = BriefEnded("rejected", 1, BriefArticles(cache))
                    /\ failed_brief' = FailedBrief(BriefArticles(cache))

\* ------------------------------------------------------------------------
\* bot_lib: filter_articles and remove_duplicate_articles called on a list
\* ------------------------------------------------------------------------

\* an article that passes every gate, and the ways an article differs from it
GoodArticle(url) == Article(url, MIN_SOCIAL_SCORE, CHOOSE d \in Today(0) : TRUE)

FilterItems ==
    LET g == GoodArticle(UrlNames[1]) IN
    { g,
      GoodArticle(UrlNames[2]),
      [g EXCEPT !.title = {}],
      [g EXCEPT !.url = ""],
      [g EXCEPT !.body = {}],
      [g EXCEPT !.source_uri = {"clickbait-news.com"}],
      [g EXCEPT !.title = {"Sponsored"}],
      [g EXCEPT !.body = @ \cup {"advertisement"}],
      [g EXCEPT !.socialScore = MIN_SOCIAL_SCORE - 1],
      [g EXCEPT !.sentiment = MIN_SENTIMENT - 1],
      [g EXCEPT !.body_len = MIN_ARTICLE_LENGTH - 1],
      [g EXCEPT !.body = {"mining"}] }

\* two articles for each of two urls, and one article without a url
DedupeItems ==
    {[GoodArticle(UrlNames[i]) EXCEPT !.socialScore = v] :
        i \in 1..2, v \in {MIN_SOCIAL_SCORE, MIN_SOCIAL_SCORE + 1}}
    \cup {[GoodArticle(UrlNames[1]) EXCEPT !.url = ""]}

NoCall == [fn |-> "none", input |-> <<>>, output |-> <<>>, done |-> FALSE]

Called(fn, articles) == [NoCall EXCEPT !.fn = fn, !.input = articles]

FilterReturns ==
    /\ call.fn = "filter_articles"
    /\ ~ call.done
    /\ call' = [call EXCEPT !.output = filter_articles(call.input), !.done = TRUE]
    /\ UNCHANGED <<queue_file, posted_file, cache_file, now, ticks, last, failed_brief, retry, ingest>>

DedupeReturns ==
    /\ call.fn = "remove_duplicate_articles"
    /\ ~ call.done
    /\ call' = [call EXCEPT !.output = remove_duplicate_articles(call.input), !.done = TRUE]
    /\ UNCHANGED <<queue_file, posted_file, cache_file, now, ticks, last, failed_brief, retry, ingest>>

\* ------------------------------------------------------------------------
\* The clock
\* ------------------------------------------------------------------------

\* time passing between invocations: a day, or the ledger's retention
TickSteps == {HOURS_PER_DAY, POSTED_RETENTION_DAYS * HOURS_PER_DAY}

Tick ==
    /\ ticks < MaxTicks
    /\ \E d \in TickSteps : now' = now + d
    /\ ticks' = ticks + 1
    /\ last' = Ended("tick", "tick", 0)
    /\ UNCHANGED <<queue_file, posted_file, cache_file, failed_brief, retry, call, ingest>>

\* ------------------------------------------------------------------------
\* Specifications
\* ------------------------------------------------------------------------

Init ==
    /\ queue_file = MissingFile
    /\ posted_file = MissingFile
    /\ cache_file = MissingFile
    /\ now = 0
    /\ ticks = 0
    /\ last = Ended("init", "init", 0)
    /\ failed_brief = NoFailedBrief
    /\ retry = NoRetry
    /\ call = NoCall
    /\ ingest = NoIngest

\* storage works: every save writes; the news is yesterday's, so the daily
\* brief cache stays empty
Next ==
    \/ workflow_monitor(SaveReliable, RawItems(Yesterday(now)), MONITOR_MAX_ARTICLES)
    \/ workflow_post(SaveReliable)
    \/ workflow_daily_brief(SaveReliable)
    \/ Tick

Spec == Init /\ [][Next]_vars

\* storage may fail: a save may raise inside save_json_file; the news source
\* returns at most MaxFaultFetch articles
NextFault ==
    \/ workflow_monitor(SaveOutcomes, RawItems(Yesterday(now)), MaxFaultFetch)
    \/ workflow_post(SaveOutcomes)
    \/ workflow_daily_brief(SaveOutcomes)
    \/ Tick

SpecFault == Init /\ [][NextFault]_vars

\* storage works, and a publish may be killed between its steps
NextKill ==
    \/ workflow_monitor(SaveReliable, RawItems(Yesterday(now)), MONITOR_MAX_ARTICLES)
    \/ workflow_post(SaveReliable)
    \/ workflow_post_killed
    \/ workflow_daily_brief(SaveReliable)
    \/ Tick

SpecKill == Init /\ [][NextKill]_vars

\* storage works, and an ingest may be killed while it saves the queue
NextCrash ==
    \/ workflow_monitor(SaveReliable, RawItems(Yesterday(now)), MaxFaultFetch)
    \/ workflow_monitor_killed(RawItems(Yesterday(now)), MaxFaultFetch)
    \/ workflow_post(SaveReliable)
    \/ workflow_daily_brief(SaveReliable)
    \/ Tick

SpecCrash == Init /\ [][NextCrash]_vars

\* storage works; an ingest and the invocations of the other workflows
\* overlap: between the ingest's load of the queue and its save, publishes
\* run
NextOverlap ==
    \/ workflow_monitor_loads(RawItems(Yesterday(now)), MaxFaultFetch)
    \/ workflow_monitor_saves
    \/ workflow_post(SaveReliable)
    \/ Tick

SpecOverlap == Init /\ [][NextOverlap]_vars

\* storage works; the news is about BriefUrls and is dated today or carries
\* no date, so ingest fills the daily brief cache
BriefUrls == {UrlNames[i] : i \in 1..MaxBriefUrls}

NextBrief ==
    \/ workflow_monitor(SaveReliable,
                        RawItemsOf(BriefUrls, Today(now) \cup NoDate(now)),
                        MaxBriefFetch)
    \/ workflow_post(SaveReliable)
    \/ workflow_daily_brief(SaveReliable)
    \/ Tick

SpecBrief == Init /\ [][NextBrief]_vars

\* one call of fetch_articles_with_retry, for each max_retries; the loop
\* keeps running until it returns or raises
InitRetry ==
    /\ queue_file = MissingFile
    /\ posted_file = MissingFile
    /\ cache_file = MissingFile
    /\ now = 0
    /\ ticks = 0
    /\ last = Ended("init", "init", 0)
    /\ failed_brief = NoFailedBrief
    /\ retry \in {RetryStarted(m) : m \in 0..MaxRetries}
    /\ call = NoCall
    /\ ingest = NoIngest

NextRetry ==
    \/ FetchAttempt
    \/ FetchLoopEnds

SpecRetry == InitRetry /\ [][NextRetry]_vars /\ WF_vars(NextRetry)

\* one call of filter_articles or of remove_duplicate_articles, for each
\* list of articles
InitCall ==
    /\ queue_file = MissingFile
    /\ posted_file = MissingFile
    /\ cache_file = MissingFile
    /\ now = 0
    /\ ticks = 0
    /\ last = Ended("init", "init", 0)
    /\ failed_brief = NoFailedBrief
    /\ retry = NoRetry
    /\ ingest = NoIngest
    /\ call \in {Called("filter_articles", a) : a \in BSeq(FilterItems, MaxFilterLen)}
               \cup {Called("remove_duplicate_articles", a) :
                        a \in BSeq(DedupeItems, MaxDedupeLen)}

NextCall ==
    \/ FilterReturns
    \/ DedupeReturns

SpecCall == InitCall /\ [][NextCall]_vars

\* ------------------------------------------------------------------------
\* Properties
\* ------------------------------------------------------------------------

PostedUrls == {posted[i].url : i \in 1..Len(posted)}

CountToday == Len(get_posted_articles_today(posted_file, now))

\* the step just taken is an invocation of workflow wf that ended on path
EndedOn(wf, paths) == last.wf = wf /\ last.path \in paths

PostFailurePaths == {"gen_raises", "no_content", "tweet_raises", "no_tweet_id"}

\* C1: no url is in the persisted queue while also in the posted ledger.
C1_QueuedUrlNotPosted == QueueUrls(queue) \cap PostedUrls = {}

\* C2: the ledger never holds more records dated today than the daily
\* maximum; a publish changes the ledger only when the count it read was
\* below the maximum, and then adds one record dated today.
C2_DailyLimit ==
    /\ [](CountToday <= MAX_TWEETS_PER_DAY)
    /\ [][(EndedOn("post", {"posted"})' /\ posted_file' # posted_file) =>
            /\ CountToday < MAX_TWEETS_PER_DAY
            /\ CountToday' = CountToday + 1]_vars

C2_Witness == EndedOn("post", {"posted"}) /\ CountToday = MAX_TWEETS_PER_DAY

\* C3: a publish that popped the head and then failed to generate or to
\* post leaves the persisted queue and the ledger as they were and returns 1.
C3_FailedPublishRestores ==
    [][EndedOn("post", PostFailurePaths)' =>
         /\ queue_file' = queue_file
         /\ posted_file' = posted_file
         /\ last'.exit = 1]_vars

C3_Witness ==
    /\ EndedOn("post", {"tweet_raises", "no_tweet_id"})
    /\ Len(queue) >= 2

\* C4: every entry a publish removes from the persisted queue has a
\* confirmed post and a record in the posted ledger.
C4_RemovedOnlyWhenRecorded ==
    [][last'.wf = "post" =>
         \A u \in QueueUrls(queue) \ QueueUrls(queue') :
            /\ last'.path = "posted"
            /\ u \in PostedUrls']_vars

\* C5: the persisted queue never holds more than MAX_QUEUE_SIZE entries.
C5_QueueBound == Len(queue) <= MAX_QUEUE_SIZE

C5_Witness ==
    /\ EndedOn("monitor", {"ok"})
    /\ last.trimmed
    /\ Len(queue) = MAX_QUEUE_SIZE

\* the entries an ingest adds: its unique articles not already queued
NewEntries(q, unique_urls) ==
    LET fresh == SelectSeq(unique_urls, LAMBDA u : u \notin QueueUrls(q))
    IN [i \in 1..Len(fresh) |-> [url |-> fresh[i]]]

\* C6: the queue an ingest writes is the old queue followed by the new
\* entries, cut to its last MAX_QUEUE_SIZE elements.
C6_EvictsFromHead ==
    [][EndedOn("monitor", {"ok"})' =>
         LET all == queue \o NewEntries(queue, last'.unique)
         IN /\ Len(all) <= MAX_QUEUE_SIZE => queue' = all
            /\ Len(all) > MAX_QUEUE_SIZE =>
                 queue' = SubSeq(all, Len(all) - MAX_QUEUE_SIZE + 1, Len(all))]_vars

C6_Witness ==
    /\ EndedOn("monitor", {"ok"})
    /\ last.trimmed
    /\ queue[Len(queue)].url = last.unique[Len(last.unique)]

\* C7 as claimed: an ingest run again on the same articles leaves the queue
\* as the first run left it.
C7_IngestIdempotent == [][last'.rerun => queue' = queue]_vars

\* C7 as amended: the second run keeps the queue's length, and leaves the
\* queue as it was when every url of the batch survived the first run's trim.
C7_IdempotentUnlessEvicted ==
    [][last'.rerun =>
         /\ Len(queue') = Len(queue)
         /\ (\A i \in 1..Len(last'.unique) : last'.unique[i] \in QueueUrls(queue))
               => queue' = queue]_vars

C7_Witness == last.rerun /\ ~ last.trimmed /\ Len(queue) >= 2

\* C8: no two entries of the persisted queue have the same url.
C8_QueueUrlsDistinct ==
    \A i, j \in 1..Len(queue) : queue[i].url = queue[j].url => i = j

C8_Witness ==
    /\ EndedOn("post", {"gen_raises"})
    /\ Len(queue) = MAX_QUEUE_SIZE

\* C9: with the required keys configured and the count of today's records
\* at or above the daily maximum, a publish changes neither the queue nor
\* the ledger, returns at the rate limit check and exits 0.
C9_RateLimitedNoOp ==
    [][(last'.wf = "post" /\ last'.path # "missing_keys"
            /\ CountToday >= MAX_TWEETS_PER_DAY) =>
         /\ queue_file' = queue_file
         /\ posted_file' = posted_file
         /\ last'.path = "rate_limit"
         /\ last'.exit = 0]_vars

C9_Witness == EndedOn("post", {"rate_limit"}) /\ queue # <<>>

\* C10: a publish whose generation and posting succeed removes exactly the
\* head of the queue, appends one ledger record with the head's url after
\* the records the ledger keeps, and exits 0.
C10_SuccessfulPublish ==
    [][EndedOn("post", {"posted"})' =>
         /\ CountToday < MAX_TWEETS_PER_DAY
         /\ queue # <<>>
         /\ queue' = Tail(queue)
         /\ \E k \in 0..Len(posted) :
               posted' = SubSeq(posted, k + 1, Len(posted))
                           \o <<[url |-> Head(queue).url, date |-> now]>>
         /\ last'.exit = 0]_vars

C10_Witness ==
    /\ EndedOn("post", {"posted"})
    /\ queue # <<>>
    /\ Len(posted) >= 2

\* number of ledger records equal to rec
CountRecords(ledger, rec) == Len(SelectSeq(ledger, LAMBDA p : p = rec))

\* C11: every publish whose post the sink confirmed adds exactly one ledger
\* record for the url and leaves the url out of the persisted queue, also
\* when the ledger write fails.
C11_RecordedExactlyOnce ==
    [][(last'.wf = "post" /\ last'.tweeted # "") =>
         LET rec == [url |-> last'.tweeted, date |-> now]
         IN /\ CountRecords(posted', rec) = CountRecords(posted, rec) + 1
            /\ last'.tweeted \notin QueueUrls(queue')]_vars

\* C12: two publish invocations in a row, the first possibly killed, never
\* both get a post confirmed for the same url.
C12_NotPostedAgain ==
    [][(last.wf = "post" /\ last.tweeted # "" /\ last'.wf = "post") =>
         last'.tweeted # last.tweeted]_vars

BriefFailurePaths == {"gen_raises", "issue_raises", "answer_raises", "rejected"}

\* the daily brief paths that load the cache and hand it on
BriefDrainPaths == BriefFailurePaths \cup {"empty_cache", "delivered"}

\* C13: a daily brief changes the cache only by emptying it, and only on the
\* path where the issue endpoint answered 201.
C13_ClearedInFullAfterDelivery ==
    [][last'.wf = "daily_brief" =>
         \/ cache_file' = cache_file
         \/ last'.path = "delivered" /\ cache' = <<>>]_vars

C13_Witness ==
    /\ EndedOn("daily_brief", {"delivered"})
    /\ last.drained # <<>>
    /\ cache = <<>>

\* C14: a daily brief that fails (generation raises, the issue call raises or
\* is rejected, any exception) leaves the cache file as it was and returns 1.
C14_FailedBriefKeepsCache ==
    [][EndedOn("daily_brief", BriefFailurePaths)' =>
         /\ cache_file' = cache_file
         /\ last'.exit = 1]_vars

C14_Witness ==
    /\ EndedOn("daily_brief", {"rejected"})
    /\ Len(cache) >= 2

\* C15 as claimed: the brief after a failed one is given every article the
\* failed one was given, whatever ran in between; a delivered brief leaves
\* the cache empty.
C15_NothingLost ==
    /\ [][(EndedOn("daily_brief", BriefDrainPaths)' /\ failed_brief.open) =>
            failed_brief.content \subseteq Range(last'.drained)]_vars
    /\ [][EndedOn("daily_brief", {"delivered"})' => cache' = <<>>]_vars

\* C15 as amended: the same, unless an ingest that wrote the cache ran in
\* between when the date of one of the failed brief's articles was 24 hours
\* or more in the past.
C15_NothingLostUnlessAged ==
    /\ [][(EndedOn("daily_brief", BriefDrainPaths)' /\ failed_brief.open
              /\ ~ failed_brief.aged) =>
            failed_brief.content \subseteq Range(last'.drained)]_vars
    /\ [][EndedOn("daily_brief", {"delivered"})' => cache' = <<>>]_vars

C15_Witness ==
    /\ EndedOn("daily_brief", {"delivered"})
    /\ last.retried
    /\ ticks > 0
    /\ cache = <<>>

\* C16: the brief that clears the cache was given every article of the cache.
C16_ClearedEntriesDelivered ==
    [][(EndedOn("daily_brief", {"delivered"})' /\ cache' = <<>>) =>
         Range(cache) \subseteq Range(last'.drained)]_vars

\* C17: after add_posted_article every ledger record is younger than 30
\* days and the new record is in the ledger.
C17_LedgerRetention ==
    [][EndedOn("post", {"posted"})' =>
         /\ \A p \in Range(posted') :
               p.date > now - POSTED_RETENTION_DAYS * HOURS_PER_DAY
         /\ [url |-> Head(queue).url, date |-> now] \in Range(posted')]_vars

C17_Witness ==
    /\ EndedOn("post", {"posted"})
    /\ last.dropped >= 1
    /\ posted # <<>>

\* C18: after ingest wrote the cache, no cached article came out more than 24
\* hours ago, with or without a 'date' key.
C18_CacheRetention ==
    [][EndedOn("monitor", {"ok"})' =>
         \A a \in Range(cache') : ~ (a.published < now - CACHE_RETENTION_HOURS)]_vars

RetryEnded == retry.status \in {"returned", "raised"}

\* the messages of authentication and invalid key errors
FatalMessages ==
    {m \in ErrorMessages : "Invalid API key" \in m \/ "Authentication" \in m}

\* C19: after an authentication or invalid key error the operation is not
\* called again, nothing is slept after it, and the error is raised to the
\* caller.
C19_FatalAborts ==
    \A i \in 1..Len(retry.calls) :
        (retry.calls[i].kind = "raises" /\ retry.calls[i].msg \in FatalMessages) =>
            /\ i = Len(retry.calls)
            /\ Len(retry.waits) = i - 1
            /\ retry.status = "raised"
            /\ retry.error = retry.calls[i].msg

C19_Witness ==
    /\ retry.status = "raised"
    /\ retry.error \in FatalMessages
    /\ Len(retry.calls) >= 2
    /\ Len(retry.calls) < retry.max_retries

\* C20: the operation is called at most max_retries times; a call that
\* returns ends the loop with its result; when max_retries calls have all
\* failed the last error is raised; and the loop ends.
C20_RetryTerminates ==
    /\ [](Len(retry.calls) <= retry.max_retries)
    /\ [](\A i \in 1..Len(retry.calls) :
            retry.calls[i].kind = "returns" =>
               /\ i = Len(retry.calls)
               /\ retry.status = "returned"
               /\ retry.result = retry.calls[i].articles)
    /\ []((/\ retry.max_retries >= 1
           /\ Len(retry.calls) = retry.max_retries
           /\ \A i \in 1..Len(retry.calls) : retry.calls[i].kind = "raises") =>
             /\ retry.status = "raised"
             /\ retry.error = retry.calls[Len(retry.calls)].msg)
    /\ <>RetryEnded

C20_Witness ==
    /\ retry.status = "raised"
    /\ retry.error \notin FatalMessages
    /\ Len(retry.calls) = MaxRetries
    /\ Len(retry.waits) = MaxRetries - 1

\* the messages of the ValueError fetch_bitcoin_mining_articles raises for a
\* malformed date range
ValidationMessages == {m \in ErrorMessages : "Invalid date format" \in m}

\* C21: after a malformed date range error the fetch is not called again,
\* nothing is slept, and the error is raised to the caller.
C21_ValidationAborts ==
    \A i \in 1..Len(retry.calls) :
        (retry.calls[i].kind = "raises" /\ retry.calls[i].msg \in ValidationMessages) =>
            /\ i = Len(retry.calls)
            /\ Len(retry.waits) = i - 1
            /\ retry.status = "raised"
            /\ retry.error = retry.calls[i].msg

\* BitcoinMiningFilter._is_mining_relevant: at least MIN_MINING_TERMS of the
\* mining keywords occur in the title and body
is_mining_relevant(a) ==
    Cardinality({k \in MINING_KEYWORDS : Contains(a.title \cup a.body, k)})
        >= MIN_MINING_TERMS

\* every gate of the ingestion filter: those of filter_articles, the minimum
\* body length and the mining relevance
PassesEveryGate(a) ==
    /\ PassesFilter(a)
    /\ a.body_len >= MIN_ARTICLE_LENGTH
    /\ is_mining_relevant(a)

\* C22: filter_articles returns, in input order, exactly the articles that
\* pass every gate.
C22_FilterAppliesEveryGate ==
    (call.fn = "filter_articles" /\ call.done) =>
        call.output = SelectSeq(call.input, PassesEveryGate)

\* the positions of s that hold the first article with their url
FirstOccurrences(s) ==
    {i \in 1..Len(s) : s[i].url # "" /\ \A j \in 1..(i - 1) : s[j].url # s[i].url}

\* out is s at an increasing choice of positions
IsSubsequenceAt(out, s, pos) ==
    /\ Len(out) = Cardinality(pos)
    /\ \E f \in [1..Len(out) -> pos] :
          /\ \A i, j \in 1..Len(out) : i < j => f[i] < f[j]
          /\ \A i \in 1..Len(out) : out[i] = s[f[i]]

\* C23: remove_duplicate_articles returns the input at the positions of the
\* first occurrence of each url, in input order, so with pairwise distinct
\* urls, and returns its own output unchanged.
C23_DedupeKeepsFirst ==
    (call.fn = "remove_duplicate_articles" /\ call.done) =>
        /\ IsSubsequenceAt(call.output, call.input, FirstOccurrences(call.input))
        /\ \A i, j \in 1..Len(call.output) :
              call.output[i].url = call.output[j].url => i = j
        /\ remove_duplicate_articles(call.output) = call.output

C23_Witness ==
    /\ call.fn = "remove_duplicate_articles"
    /\ call.done
    /\ Len(call.input) = 3
    /\ Len(call.output) = 2
    /\ call.input[1].url = call.input[3].url
    /\ call.input[1] # call.input[3]

\* the paths on which an invocation found nothing to do
NoOpPaths == {<<"monitor", "no_articles">>, <<"monitor", "none_passed">>,
              <<"post", "empty_queue">>}

\* the paths on which an invocation logged an error and gave up
FailurePaths ==
    ({"monitor"} \X {"missing_key", "fetch_raises", "filter_raises"})
    \cup ({"post"} \X ({"missing_keys"} \cup PostFailurePaths))
    \cup ({"daily_brief"} \X ({"missing_keys"} \cup BriefFailurePaths))

\* a write of file f failed in this step after the file was emptied
WriteLost(f, g) == f # CorruptFile /\ g = CorruptFile

\* C24: an ingest that fetched nothing or kept nothing and a publish that
\* found the queue empty exit 0 and leave queue, ledger and cache as they
\* were; an invocation that failed, a lost write included, exits non-zero.
C24_NoOpsAndFailures ==
    [][/\ <<last'.wf, last'.path>> \in NoOpPaths =>
             /\ last'.exit = 0
             /\ UNCHANGED <<queue_file, posted_file, cache_file>>
       /\ <<last'.wf, last'.path>> \in FailurePaths => last'.exit # 0
       /\ (\/ WriteLost(queue_file, queue_file')
           \/ WriteLost(posted_file, posted_file')
           \/ WriteLost(cache_file, cache_file')) => last'.exit # 0]_vars

\* C25: a publish gives up on an error of the generation call or of the
\* posting call only when the error is fatal or the call was made
\* POST_RETRY_ATTEMPTS times.
C25_PostRetries ==
    [][EndedOn("post", {"gen_raises", "tweet_raises"})' =>
         \/ last'.error \in FatalMessages
         \/ last'.attempts = POST_RETRY_ATTEMPTS]_vars

\* the paths of a publish on which post_to_twitter was called
PostCalledPaths == {"tweet_raises", "no_tweet_id", "posted"}

\* C30: when the image step of a publish raises, the posting call is made
\* without an image, the exit status is 0 exactly when the post was
\* confirmed, a confirmed post is recorded and leaves the queue, and the
\* entry is put back only when the post failed.
C30_ImageBestEffort ==
    [][(last'.wf = "post" /\ last'.image = "raises") =>
         /\ last'.path \in PostCalledPaths
         /\ last'.image_path = ""
         /\ last'.exit = 0 <=> last'.path = "posted"
         /\ IF last'.path = "posted"
            THEN /\ last'.tweeted = Head(queue).url
                 /\ last'.tweeted \in PostedUrls'
                 /\ queue' = Tail(queue)
            ELSE /\ posted' = posted
                 /\ queue' = queue]_vars

C30_Witness ==
    /\ EndedOn("post", {"posted"})
    /\ last.image = "raises"
    /\ last.tweeted \in PostedUrls
    /\ queue # <<>>

\* C26: in every publish, completed or killed between two steps, a ledger
\* record is written only for the url the posting sink confirmed in this
\* publish, and the queue file changes only when that record was written,
\* and then by dropping the head.
C26_PostOrder ==
    [][last'.wf = "post" =>
         LET rec == [url |-> Head(queue).url, date |-> now]
         IN /\ posted' # posted =>
                  /\ last'.tweeted = Head(queue).url
                  /\ posted' = PostedAfterAdd(posted, last'.tweeted, now)
            /\ queue' # queue =>
                  /\ CountRecords(posted', rec) = CountRecords(posted, rec) + 1
                  /\ queue' = Tail(queue)]_vars

C26_Witness ==
    /\ EndedOn("post", {"killed_after_record"})
    /\ last.tweeted \in PostedUrls
    /\ last.tweeted \in QueueUrls(queue)

\* the invocation took an entry off the queue
Pops(l) == l.wf = "post" /\ l.popped # ""

\* the invocation trimmed the queue
Evicts(l) == l.wf = "monitor" /\ l.path = "ok" /\ l.trimmed

\* C27: a failed publish leaves its entry at the head with the queue behind
\* it as it was; every invocation that neither pops nor evicts leaves the
\* head where it is; a publish that pops takes the head.  So the next
\* publish that pops after a failure on e, with no eviction in between,
\* pops e.
C27_RetryFirst ==
    [][/\ (last'.wf = "post" /\ last'.path \in PostFailurePaths) =>
             /\ queue' # <<>>
             /\ Head(queue').url = last'.popped
             /\ queue' = queue
       /\ (queue # <<>> /\ ~ Pops(last') /\ ~ Evicts(last')) =>
             /\ queue' # <<>>
             /\ Head(queue') = Head(queue)
       /\ last' = last => queue' = queue
       /\ Pops(last') => last'.popped = Head(queue).url]_vars

C27_Witness ==
    /\ EndedOn("post", RequeuePaths)
    /\ Len(queue) >= 2
    /\ Head(queue).url = last.popped

\* position of the entry for url u in queue q
IndexOf(q, u) == CHOOSE i \in 1..Len(q) : q[i].url = u

\* C28: a publish that pops takes the head of the queue, a confirmed post
\* removes exactly the head, and in every step the entries that stay keep
\* their order and are ahead of the entries that are new.
C28_Fifo ==
    [][/\ Pops(last') => last'.popped = Head(queue).url
       /\ (last'.wf = "post" /\ last'.path = "posted") =>
             /\ last'.tweeted = Head(queue).url
             /\ queue' = Tail(queue)
       /\ \A i, j \in 1..Len(queue') :
             (i < j /\ queue'[j].url \in QueueUrls(queue)) =>
                 /\ queue'[i].url \in QueueUrls(queue)
                 /\ IndexOf(queue, queue'[i].url) < IndexOf(queue, queue'[j].url)]_vars

C28_Witness ==
    /\ EndedOn("post", {"posted"})
    /\ Len(posted) = 2
    /\ posted[1].url # posted[2].url
    /\ posted[2].url = last.tweeted

\* C29: an ingest that trims the queue right after a publish failed on an
\* entry and put it back evicts that entry and writes no ledger record.
C29_StuckEvicted ==
    [][(/\ last.wf = "post" /\ last.path \in RequeuePaths
        /\ Evicts(last') /\ last'.stuck # "") =>
          /\ last'.stuck = last.popped
          /\ last'.stuck \in last'.evicted
          /\ last'.stuck \notin QueueUrls(queue')
          /\ posted' = posted]_vars

\* the entry a publish failed on has left the queue, evicted by the next
\* ingest, and no post of it was ever confirmed or recorded
C29_Witness ==
    /\ Evicts(last)
    /\ last.stuck # ""
    /\ last.stuck \in last.evicted
    /\ last.stuck \notin QueueUrls(queue)
    /\ last.stuck \notin PostedUrls
    /\ ticks = 0

\* C31: after an ingest was killed while saving the queue, a load of the
\* queue file yields what it yielded before the save, or the file holds a
\* complete list.
C31_AtomicSave ==
    [][(last'.wf = "monitor" /\ last'.path = "killed_in_save") =>
         \/ queue' = queue
         \/ queue_file'.st = "ok"]_vars

\* the file cannot be loaded: it is absent or does not parse
Unreadable(f) == f.st # "ok"

\* C32: a store whose file is absent or does not parse loads as the empty
\* store: past the key check, a publish with such a queue file ends on the
\* empty queue with exit 0 and writes nothing unless the rate limit stops
\* it; with such a ledger file the daily count is zero and the rate limit
\* does not stop it; a daily brief with such a cache file ends on the empty
\* cache with exit 0; an ingest with such a queue file queues only what it
\* fetched.
C32_LoadFailsSafe ==
    [][/\ (last'.wf = "post" /\ last'.path # "missing_keys" /\ Unreadable(queue_file)) =>
             \/ last'.path = "rate_limit"
             \/ /\ last'.path = "empty_queue"
                /\ last'.exit = 0
                /\ UNCHANGED <<queue_file, posted_file, cache_file>>
       /\ (last'.wf = "post" /\ last'.path # "missing_keys" /\ Unreadable(posted_file)) =>
             /\ CountToday = 0
             /\ last'.path # "rate_limit"
       /\ (last'.wf = "daily_brief" /\ last'.path # "missing_keys"
             /\ Unreadable(cache_file)) =>
             /\ last'.path = "empty_cache"
             /\ last'.exit = 0
             /\ UNCHANGED <<queue_file, posted_file, cache_file>>
       /\ (last'.wf = "monitor" /\ last'.path = "ok" /\ Unreadable(queue_file)) =>
             QueueUrls(queue') \subseteq Range(last'.unique)]_vars

\* a publish found a partly written queue file and ended on the empty queue
C32_Witness ==
    /\ EndedOn("post", {"empty_queue"})
    /\ queue_file.st = "corrupt"
    /\ queue_file.data # <<>>
    /\ last.exit = 0

\* C33: an invocation that exits 0 after mutating a store leaves the
\* mutation in the files: after an ingest the queue and cache files hold
\* lists and every unique url is queued unless the queue is full, after a
\* confirmed post the url is in the ledger and not in the queue, after a
\* delivered brief the cache file holds the empty list.
C33_Durable ==
    [][last'.exit = 0 =>
         /\ (last'.wf = "monitor" /\ last'.path = "ok") =>
               /\ queue_file'.st = "ok"
               /\ cache_file'.st = "ok"
               /\ \A u \in Range(last'.unique) :
                     u \in QueueUrls(queue') \/ Len(queue') = MAX_QUEUE_SIZE
         /\ (last'.wf = "post" /\ last'.path = "posted") =>
               /\ last'.tweeted \in PostedUrls'
               /\ last'.tweeted \notin QueueUrls(queue')
         /\ (last'.wf = "daily_brief" /\ last'.path = "delivered") =>
               cache_file' = OkFile(<<>>)]_vars

\* the messages of rate limit errors
RateLimitMessages == {m \in ErrorMessages : "Rate limit" \in m}

\* C34: the i-th wait follows the i-th call, which raised an error that is
\* not fatal, and lasts 10 * 2^(i-1) seconds after a rate limit error and
\* 5 * 2^(i-1) seconds after any other; the first is the longer; there are
\* fewer waits than max_retries, so none after the final attempt.
C34_Backoff ==
    /\ Len(retry.waits) <= Len(retry.calls)
    /\ \A i \in 1..Len(retry.waits) :
          /\ retry.calls[i].kind = "raises"
          /\ retry.calls[i].msg \notin FatalMessages
          /\ retry.waits[i] = IF retry.calls[i].msg \in RateLimitMessages
                              THEN 10 * 2 ^ (i - 1) ELSE 5 * 2 ^ (i - 1)
          /\ 10 * 2 ^ (i - 1) > 5 * 2 ^ (i - 1)
          /\ i < retry.max_retries
    /\ retry.status \in {"raised", "returned"} => Len(retry.waits) = Len(retry.calls) - 1
                                                  \/ retry.calls = <<>>

C34_Witness ==
    /\ retry.status = "raised"
    /\ retry.max_retries = 3
    /\ Len(retry.calls) = 3
    /\ retry.calls[1].msg \in RateLimitMessages
    /\ retry.calls[2].kind = "raises" /\ retry.calls[2].msg \notin RateLimitMessages
    /\ retry.waits = <<10, 10>>

\* the paths on which a required key is missing
MissingKeyPaths == {<<"monitor", "missing_key">>, <<"post", "missing_keys">>,
                    <<"daily_brief", "missing_keys">>}

\* C35: an invocation that finds a required key missing exits 1, has loaded
\* no store and called no collaborator, and leaves every store file as it
\* was.
C35_KeysCheckedFirst ==
    [][(<<last'.wf, last'.path>> \in MissingKeyPaths) =>
         /\ last'.exit = 1
         /\ last'.touched = {}
         /\ last'.popped = "" /\ last'.drained = <<>> /\ last'.attempts = 0
         /\ UNCHANGED <<queue_file, posted_file, cache_file>>]_vars

\* a publish without its keys, with an entry queued and the daily limit not
\* reached
C35_Witness ==
    /\ EndedOn("post", {"missing_keys"})
    /\ queue # <<>>
    /\ ~ RateLimitReached
    /\ last.exit = 1

\* the stores each workflow may save
OwnStores(wf) ==
    CASE wf = "monitor" -> {"article_queue", "daily_brief_cache"}
      [] wf = "post" -> {"article_queue", "posted_articles"}
      [] wf = "daily_brief" -> {"daily_brief_cache"}
      [] OTHER -> {}

\* C36: an invocation saves only stores of its workflow, and a store file it
\* did not save is as it was: the ingest leaves the ledger, the publish the
\* cache, the daily brief the queue and the ledger.
C36_OwnStoresOnly ==
    [][/\ last'.written \subseteq OwnStores(last'.wf)
       /\ "article_queue" \notin last'.written => queue_file' = queue_file
       /\ "posted_articles" \notin last'.written => posted_file' = posted_file
       /\ "daily_brief_cache" \notin last'.written => cache_file' = cache_file
       /\ last' # last =>
             /\ last'.wf = "monitor" => posted_file' = posted_file
             /\ last'.wf = "post" => cache_file' = cache_file
             /\ last'.wf = "daily_brief" =>
                   queue_file' = queue_file /\ posted_file' = posted_file]_vars

\* a publish recorded a post while the cache held articles
C36_Witness ==
    /\ EndedOn("post", {"posted"})
    /\ cache # <<>>
    /\ last.tweeted \in PostedUrls

\* C37: a publish whose generation returned no content exits 1 and saves
\* nothing: queue, ledger and cache files are as before, the entry it took
\* is still the head of the persisted queue, and a publish that pops right
\* after it takes the same entry.
C37_NoContentWritesNothing ==
    [][/\ (last'.wf = "post" /\ last'.path = "no_content") =>
             /\ last'.exit = 1
             /\ last'.written = {}
             /\ UNCHANGED <<queue_file, posted_file, cache_file>>
             /\ queue' # <<>>
             /\ Head(queue').url = last'.popped
       /\ (last.wf = "post" /\ last.path = "no_content"
             /\ last'.wf = "post" /\ last'.popped # "") =>
             last'.popped = last.popped]_vars

C37_Witness ==
    /\ EndedOn("post", {"no_content"})
    /\ last.exit = 1
    /\ Len(queue) >= 2
    /\ Head(queue).url = last.popped

\* number of entries of c for url u
CountUrl(c, u) == Len(SelectSeq(c, LAMBDA a : a.url = u))

\* the entries of the cache that have not aged at instant t
Fresh(c, t) == SelectSeq(c, LAMBDA a : ~ Aged(a, t))

\* C38: an ingest that saves the cache adds one entry for each of its unique
\* articles, cached already or not, to the entries that have not aged (the
\* news of SpecBrief is dated today or undated, so none of it is dropped).
C38_CacheNotDeduplicated ==
    [][(last'.wf = "monitor" /\ last'.path = "ok") =>
         /\ Len(cache') = Len(Fresh(cache, now)) + Len(last'.unique)
         /\ \A u \in Range(last'.unique) :
               CountUrl(cache', u) = CountUrl(Fresh(cache, now), u) + 1]_vars

\* the same articles ingested twice: two cache entries for one url
C38_Witness ==
    /\ EndedOn("monitor", {"ok"})
    /\ last.rerun
    /\ Len(cache) = 2
    /\ cache[1].url = cache[2].url
    /\ Len(cache) > Cardinality({cache[i].url : i \in 1..Len(cache)})

\* C39: when an ingest saves the queue it loaded before a publish removed
\* and recorded an entry, and the save does not trim, the entry is in the
\* queue again while its url is in the ledger.
C39_LostUpdate ==
    [][(ingest.pc = "loaded" /\ ingest'.pc = "idle" /\ ~ last'.trimmed) =>
         \A u \in (QueueUrls(ingest.queue) \cap PostedUrls) \ QueueUrls(queue) :
            /\ u \in QueueUrls(queue')
            /\ u \in PostedUrls'
            /\ u \in last'.resurrected \/ u \in Range(last'.unique)]_vars

\* the posted entry is queued again though the ingest did not fetch it
C39_Witness ==
    /\ EndedOn("monitor", {"ok"})
    /\ \E u \in last.resurrected :
          /\ u \in QueueUrls(queue)
          /\ u \in PostedUrls
          /\ u \notin Range(last.unique)

====
